---- MODULE Spec2Model ----
(***************************************************************************)
(* Model of the Phase I in-memory todo manager (src/phase_i).              *)
(*                                                                         *)
(* A Python str is modelled run-length encoded: a sequence of runs         *)
(* [c |-> character, n |-> repetitions >= 1], so that "a" * 500 is one run *)
(* and len() and strip() are computed, not assumed.                        *)
(* Optional[T] is modelled as a sequence of length <= 1 (None == << >>).   *)
(* A message is the source's format string plus the values it formats.     *)
(***************************************************************************)
EXTENDS Integers, Sequences, FiniteSets, TLC

VARIABLES
    tasks,      \* the shared List[Task] (main.py:27), in list order
    call,       \* the operation last called, with its arguments
    ret,        \* what that call returned (or the exception it raised)
    issued,     \* history: the set of ids handed out by successful add_task calls
    db,         \* the committed content of the SQLite file (streamlit_app.py:28-30)
    foreign_keys, \* whether the SQLite library enforces FOREIGN KEY clauses
    sess,       \* per caller of the persisted variant: the call in progress or
                \* last made, its connection, cursor result and return value
    console,    \* the console program (main.py): where it stands in the menu
                \* loop, the line last read and what it last printed
    web         \* one browser session of the web variant: st.session_state
                \* and the page the last script run rendered

vars == <<tasks, call, ret, issued>>

dbvars == <<db, foreign_keys, sess>>

uivars == <<console, web>>

\* ------------------------------------------------------------------ bounds
MaxId == 3          \* add_task is called while the next id is at most MaxId
MaxTodos == 2       \* create_todo is called while fewer todo ids were handed out
MaxTasks == 2       \* the console's Add Task is chosen while the next id is at most MaxTasks

\* ------------------------------------------------------- program constants
MAX_DESCRIPTION == 500

\* ------------------------------------------------------------------ strings
Run(c, n) == [c |-> c, n |-> n]

IsSpace(c) == c \in {" ", "\t"}

RECURSIVE StrLen(_)
StrLen(s) == IF s = << >> THEN 0 ELSE Head(s).n + StrLen(Tail(s))

RECURSIVE LStrip(_)
LStrip(s) ==
    IF s = << >> THEN << >>
    ELSE IF IsSpace(Head(s).c) THEN LStrip(Tail(s))
    ELSE s

RECURSIVE RStrip(_)
RStrip(s) ==
    IF s = << >> THEN << >>
    ELSE IF IsSpace(s[Len(s)].c) THEN RStrip(SubSeq(s, 1, Len(s) - 1))
    ELSE s

Strip(s) == RStrip(LStrip(s))

\* The description strings the callers pass in.
Descriptions ==
    { << >>,                                            \* ""
      <<Run(" ", 3)>>,                                  \* "   "
      <<Run(" ", 2), Run("a", 1), Run(" ", 1), Run("b", 1), Run("\t", 1)>>,
                                                        \* "  a b\t"
      <<Run("a", 500)>>,                                \* "a" * 500
      <<Run("a", 501)>>,                                \* "a" * 501
      <<Run(" ", 1), Run("a", 500)>> }                  \* " " + "a" * 500

\* The task ids the callers pass in.
TaskIds == 0..MaxId

\* ------------------------------------------------------------------- models
None == << >>
Some(x) == <<x>>

Message(text, id, d) == [text |-> text, id |-> id, d |-> d]
NoMessage == Message("", 0, << >>)

Returned(success, message, task) ==
    [success |-> success, message |-> message, task |-> task, raised |-> ""]
Raised(exc) ==
    [success |-> FALSE, message |-> NoMessage, task |-> None, raised |-> exc]

\* Mutant of Task: a whitespace-only description is refused as well.
Task_not_blank(id, description, is_complete) ==
    IF id < 1 THEN None
    ELSE IF Strip(description) = << >> \/ StrLen(description) > MAX_DESCRIPTION THEN None
    ELSE Some([id |-> id, description |-> description, is_complete |-> is_complete])

\* Task(id, description, is_complete) with its __post_init__ validation:
\* Some(record) when construction succeeds, None when it raises ValueError.
Task(id, description, is_complete) ==
    IF id < 1 THEN None
    ELSE IF description = << >> \/ StrLen(description) > MAX_DESCRIPTION THEN None
    ELSE Some([id |-> id, description |-> description, is_complete |-> is_complete])

validate_description(description) ==
    IF description = << >> THEN FALSE
    ELSE IF StrLen(description) > MAX_DESCRIPTION THEN FALSE
    ELSE TRUE

\* --------------------------------------------------------------- operations
Ids(ts) == {ts[i].id : i \in 1..Len(ts)}

RECURSIVE PyMax(_)
PyMax(ts) ==
    IF Len(ts) = 1 THEN ts[1].id
    ELSE LET m == PyMax(Tail(ts)) IN IF ts[1].id >= m THEN ts[1].id ELSE m

\* Mutants of get_next_id: the list length, or the first task's id, in place of
\* the highest id.
get_next_id_len(ts) == Len(ts) + 1
get_next_id_first(ts) == IF ts = << >> THEN 1 ELSE ts[1].id + 1

get_next_id(ts) == IF ts = << >> THEN 1 ELSE PyMax(ts) + 1

\* Position of the first task whose id is task_id, 0 when there is none.
RECURSIVE FirstIndex(_, _, _)
FirstIndex(ts, task_id, i) ==
    IF i > Len(ts) THEN 0
    ELSE IF ts[i].id = task_id THEN i
    ELSE FirstIndex(ts, task_id, i + 1)

get_task_by_id(ts, task_id) ==
    LET i == FirstIndex(ts, task_id, 1) IN IF i = 0 THEN None ELSE Some(ts[i])

\* list.remove(x): drops the first element equal to x.
RECURSIVE ListRemove(_, _)
ListRemove(ts, x) ==
    IF ts = << >> THEN << >>
    ELSE IF Head(ts) = x THEN Tail(ts)
    ELSE <<Head(ts)>> \o ListRemove(Tail(ts), x)

\* Each operation yields the list after the call and the value returned.
Outcome(ts, r) == [tasks |-> ts, ret |-> r]

\* Mutant of add_task: the length limit off by one (>= in place of >).
add_task_limit(ts, description) ==
    IF Strip(description) = << >> THEN
        Outcome(ts, Returned(FALSE,
            Message("Task description cannot be empty", 0, << >>), None))
    ELSE IF StrLen(description) >= MAX_DESCRIPTION THEN
        Outcome(ts, Returned(FALSE,
            Message("Task description too long (max 500 characters)", 0, << >>), None))
    ELSE
        LET next_id == get_next_id(ts)
            new_task == Task(next_id, Strip(description), FALSE)
        IN  IF new_task = None THEN Outcome(ts, Raised("ValueError"))
            ELSE Outcome(Append(ts, new_task[1]),
                     Returned(TRUE,
                         Message("Task added with ID {next_id}: \"{description.strip()}\"",
                                 next_id, Strip(description)),
                         new_task))

\* Mutant of add_task: the description is stored as given, not stripped.
add_task_nostrip(ts, description) ==
    IF Strip(description) = << >> THEN
        Outcome(ts, Returned(FALSE,
            Message("Task description cannot be empty", 0, << >>), None))
    ELSE IF StrLen(description) > MAX_DESCRIPTION THEN
        Outcome(ts, Returned(FALSE,
            Message("Task description too long (max 500 characters)", 0, << >>), None))
    ELSE
        LET next_id == get_next_id(ts)
            new_task == Task(next_id, description, FALSE)
        IN  IF new_task = None THEN Outcome(ts, Raised("ValueError"))
            ELSE Outcome(Append(ts, new_task[1]),
                     Returned(TRUE,
                         Message("Task added with ID {next_id}: \"{description.strip()}\"",
                                 next_id, Strip(description)),
                         new_task))

add_task(ts, description) ==
    IF Strip(description) = << >> THEN
        Outcome(ts, Returned(FALSE,
            Message("Task description cannot be empty", 0, << >>), None))
    ELSE IF StrLen(description) > MAX_DESCRIPTION THEN
        Outcome(ts, Returned(FALSE,
            Message("Task description too long (max 500 characters)", 0, << >>), None))
    ELSE
        LET next_id == get_next_id(ts)
            new_task == Task(next_id, Strip(description), FALSE)
        IN  IF new_task = None THEN Outcome(ts, Raised("ValueError"))
            ELSE Outcome(Append(ts, new_task[1]),
                     Returned(TRUE,
                         Message("Task added with ID {next_id}: \"{description.strip()}\"",
                                 next_id, Strip(description)),
                         new_task))

\* Mutant of update_task: the new description is stored as given, not stripped.
update_task_nostrip(ts, task_id, new_description) ==
    LET i == FirstIndex(ts, task_id, 1) IN
    IF i = 0 THEN
        Outcome(ts, Returned(FALSE,
            Message("Task with ID {task_id} not found", task_id, << >>), None))
    ELSE IF Strip(new_description) = << >> THEN
        Outcome(ts, Returned(FALSE,
            Message("Task description cannot be empty", 0, << >>), None))
    ELSE IF StrLen(new_description) > MAX_DESCRIPTION THEN
        Outcome(ts, Returned(FALSE,
            Message("Task description too long (max 500 characters)", 0, << >>), None))
    ELSE
        Outcome([ts EXCEPT ![i].description = new_description],
            Returned(TRUE,
                Message("Task {task_id} updated to \"{new_description.strip()}\"",
                        task_id, Strip(new_description)),
                None))

\* Mutant of update_task: the text is validated before the id is resolved.
update_task_validate_first(ts, task_id, new_description) ==
    LET i == FirstIndex(ts, task_id, 1) IN
    IF Strip(new_description) = << >> THEN
        Outcome(ts, Returned(FALSE,
            Message("Task description cannot be empty", 0, << >>), None))
    ELSE IF StrLen(new_description) > MAX_DESCRIPTION THEN
        Outcome(ts, Returned(FALSE,
            Message("Task description too long (max 500 characters)", 0, << >>), None))
    ELSE IF i = 0 THEN
        Outcome(ts, Returned(FALSE,
            Message("Task with ID {task_id} not found", task_id, << >>), None))
    ELSE
        Outcome([ts EXCEPT ![i].description = Strip(new_description)],
            Returned(TRUE,
                Message("Task {task_id} updated to \"{new_description.strip()}\"",
                        task_id, Strip(new_description)),
                None))

\* Mutant of update_task: the updated task is also reset to incomplete.
update_task_reset(ts, task_id, new_description) ==
    LET i == FirstIndex(ts, task_id, 1) IN
    IF i = 0 THEN
        Outcome(ts, Returned(FALSE,
            Message("Task with ID {task_id} not found", task_id, << >>), None))
    ELSE IF Strip(new_description) = << >> THEN
        Outcome(ts, Returned(FALSE,
            Message("Task description cannot be empty", 0, << >>), None))
    ELSE IF StrLen(new_description) > MAX_DESCRIPTION THEN
        Outcome(ts, Returned(FALSE,
            Message("Task description too long (max 500 characters)", 0, << >>), None))
    ELSE
        Outcome([ts EXCEPT ![i].description = Strip(new_description),
                           ![i].is_complete = FALSE],
            Returned(TRUE,
                Message("Task {task_id} updated to \"{new_description.strip()}\"",
                        task_id, Strip(new_description)),
                None))

\* Mutant of update_task: the description is assigned before it is validated.
update_task_assign_first(ts, task_id, new_description) ==
    LET i == FirstIndex(ts, task_id, 1) IN
    IF i = 0 THEN
        Outcome(ts, Returned(FALSE,
            Message("Task with ID {task_id} not found", task_id, << >>), None))
    ELSE IF Strip(new_description) = << >> THEN
        Outcome([ts EXCEPT ![i].description = Strip(new_description)],
            Returned(FALSE,
                Message("Task description cannot be empty", 0, << >>), None))
    ELSE IF StrLen(new_description) > MAX_DESCRIPTION THEN
        Outcome([ts EXCEPT ![i].description = Strip(new_description)],
            Returned(FALSE,
                Message("Task description too long (max 500 characters)", 0, << >>),
                None))
    ELSE
        Outcome([ts EXCEPT ![i].description = Strip(new_description)],
            Returned(TRUE,
                Message("Task {task_id} updated to \"{new_description.strip()}\"",
                        task_id, Strip(new_description)),
                None))

update_task(ts, task_id, new_description) ==
    LET i == FirstIndex(ts, task_id, 1) IN
    IF i = 0 THEN
        Outcome(ts, Returned(FALSE,
            Message("Task with ID {task_id} not found", task_id, << >>), None))
    ELSE IF Strip(new_description) = << >> THEN
        Outcome(ts, Returned(FALSE,
            Message("Task description cannot be empty", 0, << >>), None))
    ELSE IF StrLen(new_description) > MAX_DESCRIPTION THEN
        Outcome(ts, Returned(FALSE,
            Message("Task description too long (max 500 characters)", 0, << >>), None))
    ELSE
        Outcome([ts EXCEPT ![i].description = Strip(new_description)],
            Returned(TRUE,
                Message("Task {task_id} updated to \"{new_description.strip()}\"",
                        task_id, Strip(new_description)),
                None))

\* Mutant of delete_task: the task at list position task_id is removed
\* (tasks.pop(task_id - 1)) in place of the task found by id.
delete_task_by_position(ts, task_id) ==
    LET task == get_task_by_id(ts, task_id) IN
    IF task = None THEN
        Outcome(ts, Returned(FALSE,
            Message("Task with ID {task_id} not found", task_id, << >>), None))
    ELSE
        Outcome(IF task_id <= Len(ts)
                THEN SubSeq(ts, 1, task_id - 1) \o SubSeq(ts, task_id + 1, Len(ts))
                ELSE SubSeq(ts, 1, Len(ts) - 1),
            Returned(TRUE, Message("Task {task_id} deleted", task_id, << >>), None))

\* Mutant of delete_task: every task from the found one on is dropped
\* (del tasks[i:]) in place of the found task alone.
delete_task_tail(ts, task_id) ==
    LET i == FirstIndex(ts, task_id, 1) IN
    IF i = 0 THEN
        Outcome(ts, Returned(FALSE,
            Message("Task with ID {task_id} not found", task_id, << >>), None))
    ELSE
        Outcome(SubSeq(ts, 1, i - 1),
            Returned(TRUE, Message("Task {task_id} deleted", task_id, << >>), None))

delete_task(ts, task_id) ==
    LET task == get_task_by_id(ts, task_id) IN
    IF task = None THEN
        Outcome(ts, Returned(FALSE,
            Message("Task with ID {task_id} not found", task_id, << >>), None))
    ELSE
        Outcome(ListRemove(ts, task[1]),
            Returned(TRUE, Message("Task {task_id} deleted", task_id, << >>), None))

\* Mutant of mark_complete: a toggle, which flips an already complete task back.
mark_complete_toggle(ts, task_id) ==
    LET i == FirstIndex(ts, task_id, 1) IN
    IF i = 0 THEN
        Outcome(ts, Returned(FALSE,
            Message("Task with ID {task_id} not found", task_id, << >>), None))
    ELSE
        Outcome([ts EXCEPT ![i].is_complete = ~ts[i].is_complete],
            Returned(TRUE,
                Message("Task {task_id} marked as complete", task_id, << >>), None))

mark_complete(ts, task_id) ==
    LET i == FirstIndex(ts, task_id, 1) IN
    IF i = 0 THEN
        Outcome(ts, Returned(FALSE,
            Message("Task with ID {task_id} not found", task_id, << >>), None))
    ELSE IF ts[i].is_complete THEN
        Outcome(ts, Returned(TRUE,
            Message("Info: Task {task_id} is already marked complete", task_id, << >>),
            None))
    ELSE
        Outcome([ts EXCEPT ![i].is_complete = TRUE],
            Returned(TRUE,
                Message("Task {task_id} marked as complete", task_id, << >>), None))

mark_incomplete(ts, task_id) ==
    LET i == FirstIndex(ts, task_id, 1) IN
    IF i = 0 THEN
        Outcome(ts, Returned(FALSE,
            Message("Task with ID {task_id} not found", task_id, << >>), None))
    ELSE IF ~ts[i].is_complete THEN
        Outcome(ts, Returned(TRUE,
            Message("Info: Task {task_id} is already marked incomplete", task_id, << >>),
            None))
    ELSE
        Outcome([ts EXCEPT ![i].is_complete = FALSE],
            Returned(TRUE,
                Message("Task {task_id} marked as incomplete", task_id, << >>), None))

\* ------------------------------------------------------------------ actions
Call(op, id, d) == [op |-> op, id |-> id, d |-> d]

Init ==
    /\ tasks = << >>
    /\ call = Call("main", 0, << >>)
    /\ ret = Returned(TRUE, NoMessage, None)
    /\ issued = {}

AddTask ==
    \E d \in Descriptions :
        LET o == add_task(tasks, d) IN
        /\ o.ret.success => o.ret.task[1].id <= MaxId
        /\ tasks' = o.tasks
        /\ call' = Call("add_task", 0, d)
        /\ ret' = o.ret
        /\ issued' = IF o.ret.success THEN issued \cup {o.ret.task[1].id}
                     ELSE issued
        /\ UNCHANGED <<dbvars, uivars>>

UpdateTask ==
    \E id \in TaskIds, d \in Descriptions :
        LET o == update_task(tasks, id, d) IN
        /\ tasks' = o.tasks
        /\ call' = Call("update_task", id, d)
        /\ ret' = o.ret
        /\ UNCHANGED <<issued, dbvars, uivars>>

DeleteTask ==
    \E id \in TaskIds :
        LET o == delete_task(tasks, id) IN
        /\ tasks' = o.tasks
        /\ call' = Call("delete_task", id, << >>)
        /\ ret' = o.ret
        /\ UNCHANGED <<issued, dbvars, uivars>>

MarkComplete ==
    \E id \in TaskIds :
        LET o == mark_complete(tasks, id) IN
        /\ tasks' = o.tasks
        /\ call' = Call("mark_complete", id, << >>)
        /\ ret' = o.ret
        /\ UNCHANGED <<issued, dbvars, uivars>>

MarkIncomplete ==
    \E id \in TaskIds :
        LET o == mark_incomplete(tasks, id) IN
        /\ tasks' = o.tasks
        /\ call' = Call("mark_incomplete", id, << >>)
        /\ ret' = o.ret
        /\ UNCHANGED <<issued, dbvars, uivars>>

Next == AddTask \/ UpdateTask \/ DeleteTask \/ MarkComplete \/ MarkIncomplete

\* ====================================================== persisted variant
\* Model of the SQLite-backed functions of src/streamlit_app.py.
\*
\* db is the committed content of the database file: the rows of the two
\* tables and the AUTOINCREMENT counters (sqlite_sequence).  The created_at
\* and updated_at columns are left out: no function reads them back except
\* to order a listing, which is modelled as newest id first.
\* An email is a sequence of characters, so that lower() is computed.
\* SHA-256 is modelled as a collision-free digest of the password.

LowerChar(c) ==
    CASE c = "A" -> "a"
      [] c = "B" -> "b"
      [] c = "X" -> "x"
      [] OTHER -> c

Lower(email) == [i \in 1..Len(email) |-> LowerChar(email[i])]

hash_password(password) == <<"sha256", password>>

\* Mutant of verify_password: every password is taken as matching.
verify_password_any(password, password_hash) == TRUE

verify_password(password, password_hash) == hash_password(password) = password_hash

\* What the callers pass in.
Emails == { <<"a", "@", "x">>, <<"A", "@", "X">>, <<"b", "@", "x">> }
Passwords == { "Secret1!", "wrong" }
UserIds == {1, 2}
TodoIds == 1..MaxTodos

EmptyDb == [users |-> {}, todos |-> {}, user_seq |-> 0, todo_seq |-> 0]

\* ----------------------------------------------------------- SQL statements
\* Each write yields the database it would commit, the cursor's rowcount and
\* the sqlite3 error it raises ("" when none).
Written(d, rowcount) == [db |-> d, rowcount |-> rowcount, error |-> ""]
Refused(d, error) == [db |-> d, rowcount |-> 0, error |-> error]

\* cursor.fetchone() of a set of rows that holds at most one row.
FetchOne(rows) == IF rows = {} THEN None ELSE Some(CHOOSE r \in rows : TRUE)

\* SELECT ... FROM users WHERE email = ?
SelectUser(d, email) == FetchOne({u \in d.users : u.email = email})

\* Mutant of InsertUser: the email column without its UNIQUE constraint.
InsertUser_not_unique(d, email, password_hash) ==
    Written([d EXCEPT !.users = @ \cup {[id |-> d.user_seq + 1,
                                         email |-> email,
                                         password_hash |-> password_hash]},
                      !.user_seq = @ + 1], 1)

\* INSERT INTO users (email, password_hash, created_at); email is UNIQUE.
InsertUser(d, email, password_hash) ==
    IF \E u \in d.users : u.email = email
    THEN Refused(d, "UNIQUE constraint failed: users.email")
    ELSE Written([d EXCEPT !.users = @ \cup {[id |-> d.user_seq + 1,
                                              email |-> email,
                                              password_hash |-> password_hash]},
                           !.user_seq = @ + 1], 1)

\* INSERT INTO todos (user_id, title, description, created_at, updated_at);
\* user_id REFERENCES users(id), which SQLite checks only with foreign keys on.
InsertTodo(d, fk, user_id, title, description) ==
    IF fk /\ ~\E u \in d.users : u.id = user_id
    THEN Refused(d, "FOREIGN KEY constraint failed")
    ELSE Written([d EXCEPT !.todos = @ \cup {[id |-> d.todo_seq + 1,
                                              user_id |-> user_id,
                                              title |-> title,
                                              description |-> description,
                                              completed |-> FALSE]},
                           !.todo_seq = @ + 1], 1)

\* Mutant of OwnedTodo: the rows matched by WHERE id = ? alone.
OwnedTodo_any_owner(d, todo_id, user_id) ==
    {t \in d.todos : t.id = todo_id}

\* The rows of todos matched by WHERE id = ? AND user_id = ?
OwnedTodo(d, todo_id, user_id) ==
    {t \in d.todos : t.id = todo_id /\ t.user_id = user_id}

\* UPDATE todos SET title = ?, description = ?, updated_at = ?
\*   WHERE id = ? AND user_id = ?
UpdateTodo(d, todo_id, user_id, title, description) ==
    LET hit == OwnedTodo(d, todo_id, user_id) IN
    Written([d EXCEPT !.todos = (@ \ hit) \cup
                {[t EXCEPT !.title = title, !.description = description] : t \in hit}],
            Cardinality(hit))

\* SELECT completed FROM todos WHERE id = ? AND user_id = ?
SelectCompleted(d, todo_id, user_id) ==
    FetchOne({[completed |-> t.completed] : t \in OwnedTodo(d, todo_id, user_id)})

\* UPDATE todos SET completed = ?, updated_at = ? WHERE id = ? AND user_id = ?
SetCompleted(d, todo_id, user_id, new_status) ==
    LET hit == OwnedTodo(d, todo_id, user_id) IN
    Written([d EXCEPT !.todos = (@ \ hit) \cup
                {[t EXCEPT !.completed = new_status] : t \in hit}],
            Cardinality(hit))

\* DELETE FROM todos WHERE id = ? AND user_id = ?
DeleteTodo(d, todo_id, user_id) ==
    LET hit == OwnedTodo(d, todo_id, user_id) IN
    Written([d EXCEPT !.todos = @ \ hit], Cardinality(hit))

\* Mutant of SelectTodos: the WHERE clause without user_id = ?
SelectTodos_of_everyone(d, user_id, show_completed) ==
    {t \in d.todos : show_completed \/ ~t.completed}

\* SELECT * FROM todos WHERE user_id = ? [AND completed = 0]
SelectTodos(d, user_id, show_completed) ==
    {t \in d.todos : t.user_id = user_id /\ (show_completed \/ ~t.completed)}

\* The list get_user_todos builds from the selected rows, newest first.
RECURSIVE TodoList(_)
TodoList(rows) ==
    IF rows = {} THEN << >>
    ELSE LET r == CHOOSE x \in rows : \A y \in rows : y.id <= x.id
         IN  <<[id |-> r.id, title |-> r.title, description |-> r.description,
                completed |-> r.completed]>> \o TodoList(rows \ {r})

\* ------------------------------------------------------------ return values
DbMessage(text, detail) == [text |-> text, detail |-> detail]

Pending == [raised |-> "", value |-> << >>]
Value(v) == [raised |-> "", value |-> v]
Escapes(exc) == [raised |-> exc, value |-> << >>]

DbArgs(email, password, user_id, todo_id, title, description, show_completed) ==
    [email |-> email, password |-> password, user_id |-> user_id,
     todo_id |-> todo_id, title |-> title, description |-> description,
     show_completed |-> show_completed]

\* A function either goes on to its next statement or returns; on every
\* return its finally clause closes the connection.
Continue(pc, row, txn) ==
    [conn |-> TRUE, pc |-> pc, row |-> row, txn |-> txn, ret |-> Pending]
Finish(r) ==
    [conn |-> FALSE, pc |-> "idle", row |-> None, txn |-> None, ret |-> r]

\* ---------------------------------------------------- the functions, by statement
\* Mutant of create_user: the existence check looks up the email as typed.
create_user_select_as_typed(d, a) ==
    IF SelectUser(d, a.email) # None
    THEN Finish(Value(<<FALSE,
             DbMessage("An account with this email already exists", "")>>))
    ELSE Continue("write", None, None)

create_user_select(d, a) ==
    IF SelectUser(d, Lower(a.email)) # None
    THEN Finish(Value(<<FALSE,
             DbMessage("An account with this email already exists", "")>>))
    ELSE Continue("write", None, None)

create_user_insert(d, a) ==
    LET w == InsertUser(d, Lower(a.email), hash_password(a.password)) IN
    IF w.error # ""
    THEN Finish(Value(<<FALSE,
             DbMessage("Error creating account: {str(e)}", w.error)>>))
    ELSE Continue("commit", None, Some(w.db))

\* Mutant of authenticate_user: an unknown email gets a message of its own.
authenticate_user_telling(d, a) ==
    LET user == SelectUser(d, Lower(a.email)) IN
    IF user = None
    THEN Finish(Value(<<FALSE, DbMessage("No account with this email", ""), 0>>))
    ELSE IF ~verify_password(a.password, user[1].password_hash)
    THEN Finish(Value(<<FALSE, DbMessage("Invalid email or password", ""), 0>>))
    ELSE Finish(Value(<<TRUE, DbMessage("Login successful!", ""), user[1].id>>))

authenticate_user(d, a) ==
    LET user == SelectUser(d, Lower(a.email)) IN
    IF user = None
    THEN Finish(Value(<<FALSE, DbMessage("Invalid email or password", ""), 0>>))
    ELSE IF ~verify_password(a.password, user[1].password_hash)
    THEN Finish(Value(<<FALSE, DbMessage("Invalid email or password", ""), 0>>))
    ELSE Finish(Value(<<TRUE, DbMessage("Login successful!", ""), user[1].id>>))

create_todo_insert(d, fk, a) ==
    LET w == InsertTodo(d, fk, a.user_id, a.title, a.description) IN
    IF w.error # ""
    THEN Finish(Value(<<FALSE,
             DbMessage("Error creating todo: {str(e)}", w.error)>>))
    ELSE Continue("commit", None, Some(w.db))

get_user_todos(d, a) ==
    Finish(Value(TodoList(SelectTodos(d, a.user_id, a.show_completed))))

update_todo_update(d, a) ==
    LET w == UpdateTodo(d, a.todo_id, a.user_id, a.title, a.description) IN
    IF w.rowcount = 0
    THEN Finish(Value(<<FALSE, DbMessage("Todo not found or access denied", "")>>))
    ELSE Continue("commit", None, Some(w.db))

toggle_todo_select(d, a) ==
    LET result == SelectCompleted(d, a.todo_id, a.user_id) IN
    IF result = None
    THEN Finish(Value(<<FALSE, DbMessage("Todo not found or access denied", "")>>))
    ELSE Continue("write", result, None)

toggle_todo_update(d, a, row) ==
    LET new_status == ~row[1].completed
        w == SetCompleted(d, a.todo_id, a.user_id, new_status)
    IN  Continue("commit", Some([completed |-> new_status]), Some(w.db))

\* toggle_todo run from connect to return with no storage error: the database
\* it leaves committed.
toggle_todo(d, a) ==
    LET selected == toggle_todo_select(d, a) IN
    IF selected.pc = "idle" THEN d
    ELSE toggle_todo_update(d, a, selected.row).txn[1]

delete_todo_delete(d, a) ==
    LET w == DeleteTodo(d, a.todo_id, a.user_id) IN
    IF w.rowcount = 0
    THEN Finish(Value(<<FALSE, DbMessage("Todo not found or access denied", "")>>))
    ELSE Continue("commit", None, Some(w.db))

\* The value returned once conn.commit() has succeeded.
Committed(op, row) ==
    CASE op = "create_user" ->
            <<TRUE, DbMessage("Account created successfully! Please log in.", "")>>
      [] op = "create_todo" -> <<TRUE, DbMessage("Todo created successfully!", "")>>
      [] op = "update_todo" -> <<TRUE, DbMessage("Todo updated successfully!", "")>>
      [] op = "toggle_todo" ->
            <<TRUE, DbMessage("Todo marked as {status_text}",
                              IF row[1].completed THEN "completed" ELSE "uncompleted")>>
      [] op = "delete_todo" -> <<TRUE, DbMessage("Todo deleted successfully!", "")>>

\* What a function does with an exception raised inside its try block:
\* get_user_todos has no except clause, the others return a failure value.
ExceptionValue(op, e) ==
    CASE op = "create_user" ->
            Value(<<FALSE, DbMessage("Error creating account: {str(e)}", e)>>)
      [] op = "authenticate_user" ->
            Value(<<FALSE, DbMessage("Error during login: {str(e)}", e), 0>>)
      [] op = "create_todo" ->
            Value(<<FALSE, DbMessage("Error creating todo: {str(e)}", e)>>)
      [] op = "get_user_todos" -> Escapes("sqlite3.OperationalError")
      [] op = "update_todo" ->
            Value(<<FALSE, DbMessage("Error updating todo: {str(e)}", e)>>)
      [] op = "toggle_todo" ->
            Value(<<FALSE, DbMessage("Error toggling todo: {str(e)}", e)>>)
      [] op = "delete_todo" ->
            Value(<<FALSE, DbMessage("Error deleting todo: {str(e)}", e)>>)

\* Mutant of OnException: the handler returns without conn.close().
OnException_without_finally(op, e) ==
    [Finish(ExceptionValue(op, e)) EXCEPT !.conn = TRUE]

\* except / finally: the value is returned (or the exception goes on) after
\* conn.close().
OnException(op, e) == Finish(ExceptionValue(op, e))

OnSelect(op, d, a) ==
    CASE op = "create_user" -> create_user_select(d, a)
      [] op = "authenticate_user" -> authenticate_user(d, a)
      [] op = "get_user_todos" -> get_user_todos(d, a)
      [] op = "toggle_todo" -> toggle_todo_select(d, a)

OnWrite(op, d, fk, a, row) ==
    CASE op = "create_user" -> create_user_insert(d, a)
      [] op = "create_todo" -> create_todo_insert(d, fk, a)
      [] op = "update_todo" -> update_todo_update(d, a)
      [] op = "toggle_todo" -> toggle_todo_update(d, a, row)
      [] op = "delete_todo" -> delete_todo_delete(d, a)

\* The first statement a function executes.
FirstStatement(op) ==
    IF op \in {"create_todo", "update_todo", "delete_todo"} THEN "write" ELSE "select"

\* The SQL verb a function's write statement uses.
WriteVerb(op) ==
    CASE op \in {"create_user", "create_todo"} -> "INSERT"
      [] op \in {"update_todo", "toggle_todo"} -> "UPDATE"
      [] op = "delete_todo" -> "DELETE"

\* ------------------------------------------------------------------ callers
IdleSession ==
    [pc |-> "idle", op |-> "none",
     args |-> DbArgs(<< >>, "", 0, 0, "", "", TRUE),
     conn |-> FALSE, row |-> None, txn |-> None, ret |-> Pending,
     db0 |-> EmptyDb, stmts |-> << >>]

\* The calls made.  create_todo is given the title "t1", update_todo the
\* title "t2" and the description "d".
UserCalls(emails, passwords) ==
    {[op |-> "create_user", args |-> DbArgs(e, pw, 0, 0, "", "", TRUE)] :
        e \in emails, pw \in passwords}

LoginCalls(emails, passwords) ==
    {[op |-> "authenticate_user", args |-> DbArgs(e, pw, 0, 0, "", "", TRUE)] :
        e \in emails, pw \in passwords}

TodoCalls(users) ==
    {[op |-> "create_todo", args |-> DbArgs(<< >>, "", u, 0, "t1", "", TRUE)] :
        u \in users}
    \cup {[op |-> "get_user_todos", args |-> DbArgs(<< >>, "", u, 0, "", "", b)] :
        u \in users, b \in BOOLEAN}
    \cup {[op |-> "update_todo", args |-> DbArgs(<< >>, "", u, t, "t2", "d", TRUE)] :
        u \in users, t \in TodoIds}
    \cup {[op |-> "toggle_todo", args |-> DbArgs(<< >>, "", u, t, "", "", TRUE)] :
        u \in users, t \in TodoIds}
    \cup {[op |-> "delete_todo", args |-> DbArgs(<< >>, "", u, t, "", "", TRUE)] :
        u \in users, t \in TodoIds}

SqliteError == "database is locked"

\* The callers of the persisted variant: one script run at a time.
Callers == {1}

\* The caller's state after a statement with outcome o.
Advance(p, o, verb) ==
    sess' = [sess EXCEPT ![p].pc = o.pc, ![p].conn = o.conn, ![p].row = o.row,
                         ![p].txn = o.txn, ![p].ret = o.ret,
                         ![p].stmts = Append(@, verb)]

DbInit ==
    /\ db = EmptyDb
    /\ foreign_keys \in BOOLEAN
    /\ sess = [p \in Callers |-> IdleSession]

\* A function is called and get_db_connection() opens its connection.
Connect(p, calls) ==
    \E c \in calls :
        /\ sess[p].pc = "idle"
        /\ c.op = "create_todo" => db.todo_seq < MaxTodos
        /\ sess' = [sess EXCEPT ![p] =
                      [pc |-> FirstStatement(c.op), op |-> c.op, args |-> c.args,
                       conn |-> TRUE, row |-> None, txn |-> None, ret |-> Pending,
                       db0 |-> db, stmts |-> << >>]]
        /\ UNCHANGED <<db, foreign_keys, vars, uivars>>

\* sqlite3.connect raises: it is called before the try block.
ConnectFails(p, calls) ==
    \E c \in calls :
        /\ sess[p].pc = "idle"
        /\ sess' = [sess EXCEPT ![p] =
                      [pc |-> "idle", op |-> c.op, args |-> c.args,
                       conn |-> FALSE, row |-> None, txn |-> None,
                       ret |-> Escapes("sqlite3.OperationalError"),
                       db0 |-> db, stmts |-> << >>]]
        /\ UNCHANGED <<db, foreign_keys, vars, uivars>>

ExecSelect(p) ==
    /\ sess[p].pc = "select"
    /\ Advance(p, OnSelect(sess[p].op, db, sess[p].args), "SELECT")
    /\ UNCHANGED <<db, foreign_keys, vars, uivars>>

\* A write statement takes the database's write lock, which the connection
\* holds until it commits or closes.
ExecWrite(p) ==
    /\ sess[p].pc = "write"
    /\ \A q \in DOMAIN sess : q # p => sess[q].txn = None
    /\ Advance(p, OnWrite(sess[p].op, db, foreign_keys, sess[p].args, sess[p].row),
               WriteVerb(sess[p].op))
    /\ UNCHANGED <<db, foreign_keys, vars, uivars>>

\* A statement raises sqlite3.Error (the lock is held elsewhere, I/O fails).
ExecSelectFails(p) ==
    /\ sess[p].pc = "select"
    /\ Advance(p, OnException(sess[p].op, SqliteError), "SELECT")
    /\ UNCHANGED <<db, foreign_keys, vars, uivars>>

ExecWriteFails(p) ==
    /\ sess[p].pc = "write"
    /\ Advance(p, OnException(sess[p].op, SqliteError), WriteVerb(sess[p].op))
    /\ UNCHANGED <<db, foreign_keys, vars, uivars>>

\* conn.commit() makes the write durable; the function returns its success.
Commit(p) ==
    /\ sess[p].pc = "commit"
    /\ db' = sess[p].txn[1]
    /\ Advance(p, Finish(Value(Committed(sess[p].op, sess[p].row))), "COMMIT")
    /\ UNCHANGED <<foreign_keys, vars, uivars>>

\* conn.commit() raises: the write is rolled back when the connection closes.
CommitFails(p) ==
    /\ sess[p].pc = "commit"
    /\ Advance(p, OnException(sess[p].op, SqliteError), "COMMIT")
    /\ UNCHANGED <<db, foreign_keys, vars, uivars>>

allvars == <<tasks, call, ret, issued, db, foreign_keys, sess, console, web>>

\* The database after create_user for a@x, and after create_user for b@x too.
OneUserDb == InsertUser(EmptyDb, <<"a", "@", "x">>, hash_password("Secret1!")).db
TwoUsersDb == InsertUser(OneUserDb, <<"b", "@", "x">>, hash_password("wrong")).db

\* Accounts: sign-up and login from the empty database.
AccountCalls == UserCalls(Emails, Passwords) \cup LoginCalls(Emails, Passwords)

AccountsNext ==
    \E p \in Callers :
        \/ Connect(p, AccountCalls)
        \/ ConnectFails(p, AccountCalls)
        \/ ExecSelect(p)
        \/ ExecSelectFails(p)
        \/ ExecWrite(p)
        \/ ExecWriteFails(p)
        \/ Commit(p)
        \/ CommitFails(p)

\* The in-memory list is empty and the database as init_database leaves it.
\* Neither the console program nor a browser session is running.
UiUnused == console = << >> /\ web = << >>

InitDb == Init /\ DbInit /\ UiUnused

SpecAccounts == InitDb /\ [][AccountsNext]_allvars

\* Todos: the todo functions called for both user ids, with one or both of
\* the accounts registered.
TodosInit ==
    /\ db \in {OneUserDb, TwoUsersDb}
    /\ foreign_keys \in BOOLEAN
    /\ sess = [p \in Callers |-> IdleSession]

TodosNext ==
    \E p \in Callers :
        \/ Connect(p, TodoCalls(UserIds))
        \/ ConnectFails(p, TodoCalls(UserIds))
        \/ ExecSelect(p)
        \/ ExecSelectFails(p)
        \/ ExecWrite(p)
        \/ ExecWriteFails(p)
        \/ Commit(p)
        \/ CommitFails(p)

InitTodos == Init /\ TodosInit /\ UiUnused

SpecTodos == InitTodos /\ [][TodosNext]_allvars

\* All seven functions from the empty database, the todo functions called
\* for the first account.
DbCalls ==
    UserCalls(Emails, {"Secret1!"}) \cup LoginCalls(Emails, Passwords) \cup TodoCalls({1})

DbNext ==
    \E p \in Callers :
        \/ Connect(p, DbCalls)
        \/ ConnectFails(p, DbCalls)
        \/ ExecSelect(p)
        \/ ExecSelectFails(p)
        \/ ExecWrite(p)
        \/ ExecWriteFails(p)
        \/ Commit(p)
        \/ CommitFails(p)

SpecDb == InitDb /\ [][DbNext]_allvars

\* Two script runs at once (two browser sessions, each its own process or
\* thread with its own connections) on a database that holds the account a@x
\* and its todo 1: both sign up b@x / B@X and toggle that todo.
RaceCallers == {1, 2}

RaceDb == InsertTodo(OneUserDb, FALSE, 1, "t1", "").db

RaceCalls ==
    UserCalls({<<"b", "@", "x">>, <<"B", "@", "X">>}, {"Secret1!"})
    \cup {[op |-> "toggle_todo", args |-> DbArgs(<< >>, "", 1, 1, "", "", TRUE)]}

RaceInit ==
    /\ db = RaceDb
    /\ foreign_keys \in BOOLEAN
    /\ sess = [p \in RaceCallers |-> IdleSession]

InitRace == Init /\ RaceInit /\ UiUnused

RaceNext ==
    \E p \in RaceCallers :
        \/ Connect(p, RaceCalls)
        \/ ConnectFails(p, RaceCalls)
        \/ ExecSelect(p)
        \/ ExecSelectFails(p)
        \/ ExecWrite(p)
        \/ ExecWriteFails(p)
        \/ Commit(p)
        \/ CommitFails(p)

SpecRace == InitRace /\ [][RaceNext]_allvars

\* The in-memory variant alone: the database is not in use.
DbUnused == db = EmptyDb /\ foreign_keys = FALSE /\ sess = << >>

InitMemory == Init /\ DbUnused /\ UiUnused

Spec == InitMemory /\ [][Next]_allvars

\* ================================================= the description checks
\* Task(...), validate_description, one prompt of get_task_description and
\* add_task / update_task, each applied to the same description strings.

\* What input() hands to the program: the line typed, without its newline.
Lines == Descriptions

\* One pass of get_task_description's loop over the line read: the stripped
\* description is returned, or an error is displayed and the prompt repeats.
Prompted(returned, value, error) ==
    [success |-> returned, value |-> value, raised |-> "",
     message |-> Message(error, 0, << >>), task |-> None]

get_task_description(line) ==
    LET description == Strip(line) IN
    IF description = << >>
    THEN Prompted(FALSE, << >>, "Task description cannot be empty")
    ELSE IF StrLen(description) > MAX_DESCRIPTION
    THEN Prompted(FALSE, << >>, "Task description too long (max 500 characters)")
    ELSE Prompted(TRUE, description, "")

\* The ids and the is_complete arguments a Task is constructed with
\* (None: the argument is left out and the default applies).
TaskArgIds == -1..MaxId
TaskArgFlags == {None, Some(TRUE), Some(FALSE)}

NewTask ==
    \E id \in TaskArgIds, d \in Descriptions, c \in TaskArgFlags :
        LET t == Task(id, d, IF c = None THEN FALSE ELSE c[1]) IN
        /\ call' = [op |-> "Task", id |-> id, d |-> d, is_complete |-> c]
        /\ ret' = IF t = None THEN Raised("ValueError")
                  ELSE Returned(TRUE, NoMessage, t)
        /\ UNCHANGED <<tasks, issued, dbvars, uivars>>

ValidateDescription ==
    \E d \in Descriptions :
        /\ call' = Call("validate_description", 0, d)
        /\ ret' = Returned(validate_description(d), NoMessage, None)
        /\ UNCHANGED <<tasks, issued, dbvars, uivars>>

GetTaskDescription ==
    \E line \in Lines :
        /\ call' = Call("get_task_description", 0, line)
        /\ ret' = get_task_description(line)
        /\ UNCHANGED <<tasks, issued, dbvars, uivars>>

ChecksNext ==
    NewTask \/ ValidateDescription \/ GetTaskDescription \/ AddTask \/ UpdateTask

SpecChecks == InitMemory /\ [][ChecksNext]_allvars

\* ======================================================= the console program
\* run_menu_loop and the handlers of main.py with the prompts of ui.py.  Each
\* action is one input() call with everything the program does with the line
\* read, up to the next input() call.

\* A short line as typed, one run per character.
Chars(cs) == [i \in 1..Len(cs) |-> Run(cs[i], 1)]

RECURSIVE Expand(_)
Expand(s) ==
    IF s = << >> THEN << >>
    ELSE [i \in 1..Head(s).n |-> Head(s).c] \o Expand(Tail(s))

DigitValue(c) ==
    CASE c = "0" -> 0 [] c = "1" -> 1 [] c = "2" -> 2 [] c = "3" -> 3
      [] c = "4" -> 4 [] c = "5" -> 5 [] c = "6" -> 6 [] c = "7" -> 7
      [] c = "8" -> 8 [] c = "9" -> 9 [] OTHER -> -1

RECURSIVE DecValue(_)
DecValue(ds) ==
    IF ds = << >> THEN 0
    ELSE DecValue(SubSeq(ds, 1, Len(ds) - 1)) * 10 + DigitValue(ds[Len(ds)])

\* int(s): Some(n) for an optional sign and decimal digits with whitespace
\* around them, None when int() raises ValueError.
PyInt(s) ==
    LET cs == Expand(Strip(s))
        signed == cs # << >> /\ cs[1] \in {"+", "-"}
        ds == IF signed THEN Tail(cs) ELSE cs
    IN  IF ds = << >> \/ \E i \in 1..Len(ds) : DigitValue(ds[i]) < 0 THEN None
        ELSE IF signed /\ cs[1] = "-" THEN Some(0 - DecValue(ds))
        ELSE Some(DecValue(ds))

UpperChar(c) ==
    CASE c = "y" -> "Y" [] c = "e" -> "E" [] c = "s" -> "S"
      [] c = "n" -> "N" [] c = "o" -> "O" [] OTHER -> c

Upper(s) == [i \in 1..Len(s) |-> Run(UpperChar(s[i].c), s[i].n)]

\* One pass of each prompt's loop over the line read.
get_menu_choice(line) ==
    LET choice == PyInt(Strip(line)) IN
    IF choice # None /\ 1 <= choice[1] /\ choice[1] <= 7
    THEN Prompted(TRUE, choice[1], "")
    ELSE Prompted(FALSE, 0, "Invalid choice. Please enter a number between 1 and 7.")

get_task_id(line) ==
    LET task_id == PyInt(Strip(line)) IN
    IF task_id # None THEN Prompted(TRUE, task_id[1], "")
    ELSE Prompted(FALSE, 0, "Task ID must be a number")

\* Mutant of get_confirmation: every answer other than N / NO confirms.
get_confirmation_unless_no(line) ==
    LET user_input == Upper(Strip(line)) IN
    IF user_input \in {Chars(<<"N">>), Chars(<<"N", "O">>)}
    THEN Prompted(TRUE, FALSE, "")
    ELSE Prompted(TRUE, TRUE, "")

get_confirmation(line) ==
    LET user_input == Upper(Strip(line)) IN
    IF user_input \in {Chars(<<"Y">>), Chars(<<"Y", "E", "S">>)}
    THEN Prompted(TRUE, TRUE, "")
    ELSE IF user_input \in {Chars(<<"N">>), Chars(<<"N", "O">>)}
    THEN Prompted(TRUE, FALSE, "")
    ELSE Prompted(FALSE, FALSE, "Please enter Y or N")

\* The lines typed at each prompt.
MenuLines ==
    {Chars(<<c>>) : c \in {"0", "1", "2", "3", "4", "5", "6", "7", "8", "x"}}
    \cup {<< >>, Chars(<<" ", "7", " ">>), Chars(<<"1", "2">>)}

DigitOf(n) ==
    CASE n = 0 -> "0" [] n = 1 -> "1" [] n = 2 -> "2" [] n = 3 -> "3" [] n = 4 -> "4"
      [] n = 5 -> "5" [] n = 6 -> "6" [] n = 7 -> "7" [] n = 8 -> "8" [] n = 9 -> "9"

IdLines ==
    {Chars(<<DigitOf(n)>>) : n \in 0..(MaxTasks + 1)}
    \cup {Chars(<<" ", "2", " ">>), Chars(<<"x">>)}

DescriptionLines == {<< >>, Chars(<<" ">>), Chars(<<" ", "a", " ">>)}

ConfirmLines ==
    {Chars(<<"y">>), Chars(<<" ", "Y", "e", "s", " ">>), Chars(<<"n">>),
     Chars(<<"N", "O">>), Chars(<<"x">>)}

\* What the program printed last.
Display(kind, message) == [kind |-> kind, message |-> message]

\* pc is the input() call the program waits in: "menu" (get_menu_choice),
\* "add_description", "update_id", "update_description", "delete_id",
\* "confirm", "complete_id", "incomplete_id", "pause"; "returned" once
\* run_menu_loop has left its loop, "interrupted" once an exception has left it.
ConsoleStart ==
    [pc |-> "menu", choice |-> 0, task_id |-> 0, line |-> << >>,
     out |-> Display("menu", NoMessage)]

Prompts ==
    {"menu", "add_description", "update_id", "update_description", "delete_id",
     "confirm", "complete_id", "incomplete_id", "pause"}

\* Mutant of FirstPrompt: choices 5 and 6 reach each other's handler.
FirstPrompt_swapped(choice) ==
    CASE choice = 1 -> "add_description"
      [] choice = 3 -> "update_id"
      [] choice = 4 -> "delete_id"
      [] choice = 5 -> "incomplete_id"
      [] choice = 6 -> "complete_id"

\* The prompt a handler starts with.
FirstPrompt(choice) ==
    CASE choice = 1 -> "add_description"
      [] choice = 3 -> "update_id"
      [] choice = 4 -> "delete_id"
      [] choice = 5 -> "complete_id"
      [] choice = 6 -> "incomplete_id"

\* A prompt refuses the line: display_error and the same prompt again.
Reprompt(line, r) ==
    /\ console' = [console EXCEPT !.line = line, !.out = Display("error", r.message)]
    /\ UNCHANGED <<vars, dbvars, web>>

\* A handler has called an operation: it displays the message and pauses.
Handled(line, c, o) ==
    /\ tasks' = o.tasks
    /\ call' = c
    /\ ret' = o.ret
    /\ console' = [console EXCEPT
                      !.line = line,
                      !.pc = IF o.ret.raised # "" THEN "interrupted" ELSE "pause",
                      !.out = IF o.ret.raised # "" THEN Display(o.ret.raised, NoMessage)
                              ELSE IF o.ret.success THEN Display("success", o.ret.message)
                              ELSE Display("error", o.ret.message)]
    /\ UNCHANGED <<dbvars, web>>

\* get_menu_choice, then run_menu_loop's dispatch on the choice returned.
MenuChoice ==
    \E line \in MenuLines :
        LET r == get_menu_choice(line) IN
        /\ console.pc = "menu"
        /\ IF ~r.success THEN Reprompt(line, r)
           ELSE /\ console' =
                      [console EXCEPT
                         !.line = line,
                         !.choice = r.value,
                         !.pc = IF r.value = 7 THEN "returned"
                                ELSE IF r.value = 2 THEN "pause"
                                ELSE FirstPrompt(r.value),
                         !.out = IF r.value = 7 THEN Display("goodbye", NoMessage)
                                 ELSE IF r.value = 2 THEN Display("tasks", NoMessage)
                                 ELSE Display("handler", NoMessage)]
                /\ UNCHANGED <<vars, dbvars, web>>

handle_add_task ==
    \E line \in DescriptionLines :
        LET r == get_task_description(line)
            o == add_task(tasks, r.value)
        IN
        /\ console.pc = "add_description"
        /\ IF ~r.success THEN Reprompt(line, r)
           ELSE /\ o.ret.success => o.ret.task[1].id <= MaxTasks
                /\ Handled(line, Call("add_task", 0, r.value), o)
                /\ issued' = IF o.ret.success THEN issued \cup {o.ret.task[1].id}
                             ELSE issued

\* get_task_id and the look-up that handle_update_task and handle_delete_task
\* make before they ask for more.
LookUp(next_prompt) ==
    \E line \in IdLines :
        LET r == get_task_id(line)
            task == get_task_by_id(tasks, r.value)
        IN
        IF ~r.success THEN Reprompt(line, r)
        ELSE /\ console' =
                   [console EXCEPT
                      !.line = line,
                      !.task_id = r.value,
                      !.pc = IF task = None THEN "pause" ELSE next_prompt,
                      !.out = IF task = None
                              THEN Display("error",
                                     Message("Task with ID {task_id} not found",
                                             r.value, << >>))
                              ELSE Display("task", NoMessage)]
             /\ UNCHANGED <<vars, dbvars, web>>

handle_update_task_id ==
    /\ console.pc = "update_id"
    /\ LookUp("update_description")

handle_update_task ==
    \E line \in DescriptionLines :
        LET r == get_task_description(line) IN
        /\ console.pc = "update_description"
        /\ IF ~r.success THEN Reprompt(line, r)
           ELSE /\ Handled(line, Call("update_task", console.task_id, r.value),
                           update_task(tasks, console.task_id, r.value))
                /\ UNCHANGED issued

handle_delete_task_id ==
    /\ console.pc = "delete_id"
    /\ LookUp("confirm")

handle_delete_task ==
    \E line \in ConfirmLines :
        LET r == get_confirmation(line) IN
        /\ console.pc = "confirm"
        /\ IF ~r.success THEN Reprompt(line, r)
           ELSE IF r.value
           THEN /\ Handled(line, Call("delete_task", console.task_id, << >>),
                           delete_task(tasks, console.task_id))
                /\ UNCHANGED issued
           ELSE /\ console' = [console EXCEPT !.line = line, !.pc = "pause",
                                               !.out = Display("cancelled", NoMessage)]
                /\ UNCHANGED <<vars, dbvars, web>>

handle_mark_complete ==
    \E line \in IdLines :
        LET r == get_task_id(line) IN
        /\ console.pc = "complete_id"
        /\ IF ~r.success THEN Reprompt(line, r)
           ELSE /\ Handled(line, Call("mark_complete", r.value, << >>),
                           mark_complete(tasks, r.value))
                /\ UNCHANGED issued

handle_mark_incomplete ==
    \E line \in IdLines :
        LET r == get_task_id(line) IN
        /\ console.pc = "incomplete_id"
        /\ IF ~r.success THEN Reprompt(line, r)
           ELSE /\ Handled(line, Call("mark_incomplete", r.value, << >>),
                           mark_incomplete(tasks, r.value))
                /\ UNCHANGED issued

\* ui.pause(): any line; the handler returns and the loop displays the menu.
pause ==
    /\ console.pc = "pause"
    /\ console' = [console EXCEPT !.pc = "menu", !.line = << >>,
                                  !.out = Display("menu", NoMessage)]
    /\ UNCHANGED <<vars, dbvars, web>>

\* input() raises instead of returning a line: Ctrl-C or the end of the
\* input.  The exception leaves run_menu_loop and main() exits the process.
InputRaises ==
    \E exc \in {"KeyboardInterrupt", "EOFError"} :
        /\ console.pc \in Prompts
        /\ console' = [console EXCEPT !.pc = "interrupted",
                                      !.out = Display(exc, NoMessage)]
        /\ UNCHANGED <<vars, dbvars, web>>

ConsoleNext ==
    \/ MenuChoice
    \/ handle_add_task
    \/ handle_update_task_id
    \/ handle_update_task
    \/ handle_delete_task_id
    \/ handle_delete_task
    \/ handle_mark_complete
    \/ handle_mark_incomplete
    \/ pause
    \/ InputRaises

InitConsole == Init /\ DbUnused /\ console = ConsoleStart /\ web = << >>

SpecConsole == InitConsole /\ [][ConsoleNext]_allvars

\* ============================================================ the web pages
\* main() of streamlit_app.py and the three pages.  Streamlit runs the script
\* from the top on every interaction, so each action is one interaction with
\* the script run (and the rerun, where st.rerun() is called) that follows.
\* The functions are called here from connect to return with no storage
\* error; their statements and errors are the subject of SpecDb.

\* A function of the persisted variant run as a whole: the database it
\* leaves committed and the value it returns.
RunCall(op, d, fk, a) ==
    LET first == IF FirstStatement(op) = "select" THEN OnSelect(op, d, a)
                 ELSE OnWrite(op, d, fk, a, None)
        second == IF first.pc = "write" THEN OnWrite(op, d, fk, a, first.row)
                  ELSE first
    IN  IF second.pc = "commit"
        THEN [db |-> second.txn[1], value |-> Committed(op, second.row)]
        ELSE [db |-> d, value |-> second.ret.value]

\* st.session_state after clear() and in a new browser session: no key is
\* set.  page "" stands for no "page" key, user_id 0 for None or no key.
NewSession(query) ==
    [page |-> "", user_id |-> 0, user_email |-> << >>,
     query |-> query, rendered |-> "", message |-> ""]

\* Mutant of main: the todos page shown to whoever asks for it.
main_any_session(w) ==
    LET started == IF w.page = ""
                   THEN IF w.query # "" THEN w.query ELSE "login"
                   ELSE w.page
    IN  [w EXCEPT !.page = started,
                  !.rendered = IF started \in {"todos", "signup"} THEN started
                               ELSE "login"]

\* main(): the session defaults, the redirect of a logged-in session and the
\* choice of the page to show.
main(w) ==
    LET requested_page == w.query
        started == IF w.page = ""
                   THEN IF requested_page # "" THEN requested_page ELSE "login"
                   ELSE w.page
        page == IF w.user_id # 0 /\ started \in {"login", "signup"} THEN "todos"
                ELSE started
    IN  [w EXCEPT !.page = page,
                  !.rendered = IF w.user_id # 0 /\ page = "todos" THEN "todos"
                               ELSE IF page = "signup" THEN "signup"
                               ELSE "login"]

\* What is typed into the forms and put into the address bar.
QueryPages == {"", "login", "signup", "todos", "admin"}
FormEmails == {<< >>, <<"a", "@", "x">>, <<"A", "@", "X">>, <<"b", "@", "x">>}
FormPasswords == {"", "Secret1!", "wrong"}
Titles == {<< >>, <<Run(" ", 3)>>, <<Run("a", 1)>>, <<Run("a", 501)>>}

\* The shortest password show_signup_page accepts.
MIN_PASSWORD == 8

\* len(password)
PasswordLen(password) ==
    CASE password = "" -> 0 [] password = "wrong" -> 5 [] password = "Secret1!" -> 8

\* The address is opened (or a page link followed): a new session.
Open ==
    \E q \in QueryPages :
        /\ web' = main(NewSession(q))
        /\ UNCHANGED <<vars, dbvars, console>>

show_login_page ==
    \E email \in FormEmails, password \in FormPasswords :
        LET r == RunCall("authenticate_user", db, foreign_keys,
                         DbArgs(email, password, 0, 0, "", "", TRUE)).value
        IN
        /\ web.rendered = "login"
        /\ web' = IF email = << >> \/ password = ""
                  THEN [main(web) EXCEPT !.message = "Please fill in all fields"]
                  ELSE IF r[1]
                  THEN main([web EXCEPT !.user_id = r[3], !.user_email = email,
                                        !.page = "todos", !.message = ""])
                  ELSE [main(web) EXCEPT !.message = r[2].text]
        /\ UNCHANGED <<vars, dbvars, console>>

show_signup_page ==
    \E email \in FormEmails, password \in FormPasswords,
       password_confirm \in FormPasswords :
        LET c == RunCall("create_user", db, foreign_keys,
                         DbArgs(email, password, 0, 0, "", "", TRUE))
        IN
        /\ web.rendered = "signup"
        /\ IF email = << >> \/ password = "" \/ password_confirm = ""
           THEN /\ web' = [main(web) EXCEPT !.message = "Please fill in all fields"]
                /\ db' = db
           ELSE IF password # password_confirm
           THEN /\ web' = [main(web) EXCEPT !.message = "Passwords do not match"]
                /\ db' = db
           ELSE IF PasswordLen(password) < MIN_PASSWORD
           THEN /\ web' = [main(web) EXCEPT
                              !.message = "Password must be at least 8 characters"]
                /\ db' = db
           ELSE /\ db' = c.db
                /\ web' = IF c.value[1]
                          THEN main([web EXCEPT !.page = "login", !.message = ""])
                          ELSE [main(web) EXCEPT !.message = c.value[2].text]
        /\ UNCHANGED <<vars, foreign_keys, sess, console>>

\* The Logout button: st.session_state.clear() and st.rerun().
Logout ==
    /\ web.rendered = "todos"
    /\ web' = main(NewSession(web.query))
    /\ UNCHANGED <<vars, dbvars, console>>

\* The add-todo form of show_todos_page.
AddTodo ==
    \E title \in Titles :
        LET c == RunCall("create_todo", db, foreign_keys,
                         DbArgs(<< >>, "", web.user_id, 0, title, "", TRUE))
        IN
        /\ web.rendered = "todos"
        /\ IF title = << >>
           THEN /\ web' = [main(web) EXCEPT !.message = "Please enter a title"]
                /\ db' = db
           ELSE /\ db.todo_seq < MaxTodos
                /\ db' = c.db
                /\ web' = [main(web) EXCEPT
                              !.message = IF c.value[1] THEN "" ELSE c.value[2].text]
        /\ UNCHANGED <<vars, foreign_keys, sess, console>>

\* The toggle and the delete button of a todo that the page lists.
TodoButton(op, todo) ==
    LET c == RunCall(op, db, foreign_keys,
                     DbArgs(<< >>, "", web.user_id, todo.id, "", "", TRUE))
    IN
    /\ web.rendered = "todos"
    /\ db' = c.db
    /\ web' = [main(web) EXCEPT
                  !.message = IF c.value[1] THEN "" ELSE c.value[2].text]
    /\ UNCHANGED <<vars, foreign_keys, sess, console>>

ToggleButton ==
    \E todo \in SelectTodos(db, web.user_id, TRUE) : TodoButton("toggle_todo", todo)

DeleteButton ==
    \E todo \in SelectTodos(db, web.user_id, TRUE) : TodoButton("delete_todo", todo)

WebNext ==
    \/ Open
    \/ show_login_page
    \/ show_signup_page
    \/ Logout
    \/ AddTodo
    \/ ToggleButton
    \/ DeleteButton

WebInit ==
    /\ db = EmptyDb
    /\ foreign_keys = FALSE
    /\ sess = << >>
    /\ console = << >>
    /\ web = main(NewSession(""))

InitWeb == Init /\ WebInit

SpecWeb == InitWeb /\ [][WebNext]_allvars

\* ------------------------------------------------- vocabulary of the claims
EmptyText == "Task description cannot be empty"
TooLongText == "Task description too long (max 500 characters)"
NotFoundText == "Task with ID {task_id} not found"

\* Every character of d is whitespace (which includes d = "").
IsBlank(d) == \A i \in 1..Len(d) : d[i].c \in {" ", "\t"}

\* t is d with its leading and its trailing whitespace removed.
IsTrimOf(t, d) ==
    \E i \in 1..(Len(d) + 1), j \in 0..Len(d) :
        /\ t = SubSeq(d, i, j)
        /\ \A k \in 1..(i - 1) : d[k].c \in {" ", "\t"}
        /\ \A k \in (j + 1)..Len(d) : d[k].c \in {" ", "\t"}
        /\ t # << >> => t[1].c \notin {" ", "\t"} /\ t[Len(t)].c \notin {" ", "\t"}

\* The number of characters of d.
CharCount(d) ==
    LET sum[k \in 0..Len(d)] == IF k = 0 THEN 0 ELSE sum[k - 1] + d[k].n
    IN  sum[Len(d)]

\* The positions in list ts of the tasks with id task_id.
PositionsOf(ts, task_id) == {i \in 1..Len(ts) : ts[i].id = task_id}

AddSucceeded == call.op = "add_task" /\ ret.success
AssignedId == ret.task[1].id

\* C1 (as claimed): over any sequence of add_task and delete_task calls from
\* the empty collection, every id assigned by a successful add is greater
\* than every id assigned before it, so no id is assigned twice, also after a
\* delete of the task with the highest id.
C1_IdsNeverReused ==
    [][AddSucceeded' => \A i \in issued : AssignedId' > i]_vars

\* C1 (amended): the id assigned by a successful add is greater than every id
\* in the collection at that time, and it is greater than every id assigned
\* before exactly when the highest id assigned so far is still in the
\* collection (or none was assigned): once the task with the highest id is
\* deleted, the next add assigns an id that was assigned before.
C1_IdsFreshWhileHighestKept ==
    [][AddSucceeded' =>
          /\ \A i \in Ids(tasks) : AssignedId' > i
          /\ (\A i \in issued : AssignedId' > i)
                <=> (\A i \in issued : \E k \in Ids(tasks) : k >= i)]_vars

\* An add that follows the delete of a task other than the highest one.
C1_Witness ==
    /\ AddSucceeded
    /\ \E i \in issued : i \notin Ids(tasks) /\ i < AssignedId
    /\ AssignedId - 1 \in Ids(tasks)
    /\ Len(tasks) = 2

\* C2: a successful add_task assigns id 1 to an empty collection and
\* otherwise the highest id in the collection plus one; with only id 2 left
\* (add, add, delete(1)) the add gets id 3 and the collection then holds 2
\* records; with ids 1 and 2 left of 1, 2, 3 the add gets id 3.
C2_NextIdIsMaxPlusOne ==
    [][AddSucceeded' =>
          /\ tasks = << >> => AssignedId' = 1
          /\ tasks # << >> =>
                /\ AssignedId' - 1 \in Ids(tasks)
                /\ \A i \in Ids(tasks) : i < AssignedId'
          /\ Ids(tasks) = {2} => AssignedId' = 3 /\ Len(tasks') = 2
          /\ (Ids(tasks) = {1, 2} /\ 3 \in issued) => AssignedId' = 3]_vars

\* After add, add, delete(1), add: ids 2 and 3, two records.
C2_Witness ==
    /\ AddSucceeded
    /\ AssignedId = 3
    /\ Ids(tasks) = {2, 3}
    /\ Len(tasks) = 2

\* C3: add_task with an empty, a whitespace-only or a more than 500 character
\* description returns (False, validation message, None) and leaves the
\* collection as it was; with a description of exactly 500 characters (not
\* all of them whitespace) it succeeds.
C3_InvalidAddRejected ==
    [][call'.op = "add_task" =>
          /\ (IsBlank(call'.d) \/ CharCount(call'.d) > 500) =>
                /\ ret'.success = FALSE
                /\ ret'.raised = ""
                /\ ret'.message.text \in {EmptyText, TooLongText}
                /\ ret'.task = None
                /\ tasks' = tasks
          /\ (CharCount(call'.d) = 500 /\ ~IsBlank(call'.d)) =>
                /\ ret'.success = TRUE
                /\ Len(tasks') = Len(tasks) + 1]_vars

\* A too long description rejected on a collection that holds tasks.
C3_Witness ==
    /\ call.op = "add_task"
    /\ CharCount(call.d) = 501
    /\ ~ret.success
    /\ ret.message.text = TooLongText
    /\ Len(tasks) = 2

\* C4: a successful add_task appends exactly one record at the end, with the
\* next id, the description without its leading and trailing whitespace and
\* is_complete false; it returns that record, and the records that were in
\* the collection stay as they were, in their order.
C4_AddAppendsOneRecord ==
    [][AddSucceeded' =>
          /\ Len(tasks') = Len(tasks) + 1
          /\ SubSeq(tasks', 1, Len(tasks)) = tasks
          /\ ret'.task = <<tasks'[Len(tasks')]>>
          /\ \A i \in Ids(tasks) : tasks'[Len(tasks')].id > i
          /\ tasks'[Len(tasks')].id >= 1
          /\ IsTrimOf(tasks'[Len(tasks')].description, call'.d)
          /\ tasks'[Len(tasks')].is_complete = FALSE]_vars

\* An add whose description had whitespace to remove, after two other tasks.
C4_Witness ==
    /\ AddSucceeded
    /\ Len(tasks) = 3
    /\ call.d # tasks[3].description
    /\ tasks[1].is_complete

\* C5: in every state reached by add_task, update_task, delete_task,
\* mark_complete and mark_incomplete calls from the empty collection, the
\* task ids are positive integers and pairwise distinct.
C5_IdsPositiveDistinct ==
    /\ \A i \in 1..Len(tasks) : tasks[i].id \in Nat \ {0}
    /\ \A i, j \in 1..Len(tasks) : tasks[i].id = tasks[j].id => i = j

\* Ids 1 and 3 are left after the delete of task 2.
C5_Witness ==
    /\ Len(tasks) = 2
    /\ call.op = "delete_task"
    /\ ret.success
    /\ Ids(tasks) = {1, 3}

\* C6: in every state reached by add_task and update_task calls with
\* arbitrary texts, mixed with the other operations, every stored description
\* is non-empty, at most 500 characters long and has neither leading nor
\* trailing whitespace.
C6_DescriptionsValid ==
    \A i \in 1..Len(tasks) :
        LET d == tasks[i].description IN
        /\ d # << >>
        /\ CharCount(d) >= 1
        /\ CharCount(d) <= 500
        /\ d[1].c \notin {" ", "\t"}
        /\ d[Len(d)].c \notin {" ", "\t"}

\* An update with a padded text has replaced a description.
C6_Witness ==
    /\ call.op = "update_task"
    /\ ret.success
    /\ call.d[1].c = " "
    /\ \E i \in 1..Len(tasks) : tasks[i].id = call.id /\ tasks[i].description # call.d

\* C7: update_task, delete_task, mark_complete and mark_incomplete with an id
\* that is not in the collection (an empty collection included) return
\* success = False with the not-found message and leave the collection as it
\* was.
C7_AbsentIdNotFound ==
    [][(/\ call'.op \in {"update_task", "delete_task", "mark_complete", "mark_incomplete"}
        /\ PositionsOf(tasks, call'.id) = {}) =>
          /\ ret'.success = FALSE
          /\ ret'.raised = ""
          /\ ret'.message = Message(NotFoundText, call'.id, << >>)
          /\ tasks' = tasks]_vars

\* An update with an invalid text and an id that a delete has removed.
C7_Witness ==
    /\ call.op = "update_task"
    /\ call.id \in issued
    /\ PositionsOf(tasks, call.id) = {}
    /\ IsBlank(call.d)
    /\ ~ret.success
    /\ tasks # << >>

\* C8: mark_complete (mark_incomplete) of an existing task that is already
\* complete (incomplete) returns success = True with the "already marked"
\* message and changes nothing; of a task in the other state it returns
\* success = True and sets is_complete to the target value, with every other
\* field and every other task as before. The same call made a second time
\* leaves the state of the first.
C8_MarkSetsFlagIdempotently ==
    [][call'.op \in {"mark_complete", "mark_incomplete"} =>
          LET target == (call'.op = "mark_complete")
              info == IF target
                      THEN "Info: Task {task_id} is already marked complete"
                      ELSE "Info: Task {task_id} is already marked incomplete"
          IN
          /\ \A i \in PositionsOf(tasks, call'.id) :
                /\ ret'.success = TRUE
                /\ (ret'.message.text = info) <=> (tasks[i].is_complete = target)
                /\ tasks[i].is_complete = target => tasks' = tasks
                /\ Len(tasks') = Len(tasks)
                /\ tasks'[i] = [id |-> tasks[i].id,
                                description |-> tasks[i].description,
                                is_complete |-> target]
                /\ \A j \in 1..Len(tasks) : j # i => tasks'[j] = tasks[j]
          /\ (call.op = call'.op /\ call.id = call'.id) => tasks' = tasks]_vars

\* mark_complete called again on the task it has just completed.
C8_Witness ==
    /\ call.op = "mark_complete"
    /\ ret.success
    /\ ret.message.text = "Info: Task {task_id} is already marked complete"
    /\ Len(tasks) = 2
    /\ \E i \in 1..2 : ~tasks[i].is_complete

\* The record get_task_by_id gives for an id, as the claims read it.
Fetched(ts, task_id) == get_task_by_id(ts, task_id)

SucceededOn(ops, task_id) == call.op \in ops /\ call.id = task_id /\ ret.success

\* C9 (as claimed): right after a successful add_task(d) returning r,
\* get_task_by_id(r.id) gives the record with r's id, d without surrounding
\* whitespace and is_complete false, and it keeps giving that record until a
\* delete_task or update_task with that id succeeds.
C9_FetchedUntilDeleteOrUpdate ==
    [][/\ AddSucceeded' =>
            /\ Len(Fetched(tasks', AssignedId')) = 1
            /\ Fetched(tasks', AssignedId') = ret'.task
            /\ Fetched(tasks', AssignedId')[1].id = AssignedId'
            /\ IsTrimOf(Fetched(tasks', AssignedId')[1].description, call'.d)
            /\ Fetched(tasks', AssignedId')[1].is_complete = FALSE
       /\ \A id \in TaskIds :
            (/\ Fetched(tasks, id) # None
             /\ Fetched(tasks, id)[1].is_complete = FALSE
             /\ ~SucceededOn({"delete_task", "update_task"}, id)')
            => Fetched(tasks', id) = Fetched(tasks, id)]_vars

\* C9 (amended): ... and it keeps giving that record until a delete_task,
\* update_task or mark_complete with that id succeeds.
C9_FetchedUntilDeleteUpdateOrMark ==
    [][/\ AddSucceeded' =>
            /\ Len(Fetched(tasks', AssignedId')) = 1
            /\ Fetched(tasks', AssignedId') = ret'.task
            /\ Fetched(tasks', AssignedId')[1].id = AssignedId'
            /\ IsTrimOf(Fetched(tasks', AssignedId')[1].description, call'.d)
            /\ Fetched(tasks', AssignedId')[1].is_complete = FALSE
       /\ \A id \in TaskIds :
            (/\ Fetched(tasks, id) # None
             /\ Fetched(tasks, id)[1].is_complete = FALSE
             /\ ~SucceededOn({"delete_task", "update_task", "mark_complete"}, id)')
            => Fetched(tasks', id) = Fetched(tasks, id)]_vars

\* The record added as task 2 is still given after task 1 was deleted.
C9_Witness ==
    /\ SucceededOn({"delete_task"}, 1)
    /\ Len(Fetched(tasks, 2)) = 1
    /\ ~Fetched(tasks, 2)[1].is_complete
    /\ Len(tasks) = 2

\* C10: a successful update_task(id, text) replaces the description of the
\* task with that id by text without its surrounding whitespace; that task's
\* id, is_complete and position, the number of tasks and every other task
\* stay as they were.
C10_UpdateReplacesDescriptionOnly ==
    [][(call'.op = "update_task" /\ ret'.success) =>
          /\ PositionsOf(tasks, call'.id) # {}
          /\ Len(tasks') = Len(tasks)
          /\ \A i \in 1..Len(tasks) :
                /\ tasks'[i].id = tasks[i].id
                /\ tasks'[i].is_complete = tasks[i].is_complete
                /\ tasks[i].id # call'.id => tasks'[i] = tasks[i]
                /\ tasks[i].id = call'.id =>
                      IsTrimOf(tasks'[i].description, call'.d)]_vars

\* A completed task, second of three, got a new description from a padded text.
C10_Witness ==
    /\ call.op = "update_task"
    /\ ret.success
    /\ Len(tasks) = 3
    /\ tasks[2].id = call.id
    /\ tasks[2].is_complete
    /\ tasks[2].description # call.d
    /\ tasks[1].description # tasks[2].description

\* C11: update_task of an existing id with an empty, a whitespace-only or a
\* more than 500 character text returns success = False with a validation
\* message and leaves the task's description (and the collection) as it was;
\* with an absent id and such a text the result is the not-found failure.
C11_InvalidUpdateRejected ==
    [][(call'.op = "update_task"
        /\ (IsBlank(call'.d) \/ CharCount(call'.d) > 500)) =>
          /\ ret'.success = FALSE
          /\ ret'.raised = ""
          /\ tasks' = tasks
          /\ PositionsOf(tasks, call'.id) # {} =>
                ret'.message.text =
                    IF IsBlank(call'.d) THEN EmptyText ELSE TooLongText
          /\ PositionsOf(tasks, call'.id) = {} =>
                ret'.message = Message(NotFoundText, call'.id, << >>)]_vars

\* A 501 character text refused for the second of two tasks.
C11_Witness ==
    /\ call.op = "update_task"
    /\ CharCount(call.d) = 501
    /\ ~ret.success
    /\ ret.message.text = TooLongText
    /\ Len(tasks) = 2
    /\ tasks[2].id = call.id

\* C12: a successful delete_task(id) removes exactly the one task with that
\* id: the collection is one shorter, get_task_by_id(id) is absent afterwards
\* and the other tasks remain, unchanged and in the same order.
C12_DeleteRemovesOneTask ==
    [][(call'.op = "delete_task" /\ ret'.success) =>
          /\ Len(tasks') = Len(tasks) - 1
          /\ get_task_by_id(tasks', call'.id) = None
          /\ \E i \in 1..Len(tasks) :
                /\ tasks[i].id = call'.id
                /\ \A j \in 1..(i - 1) : tasks'[j] = tasks[j]
                /\ \A j \in (i + 1)..Len(tasks) : tasks'[j - 1] = tasks[j]]_vars

\* The first of three tasks is deleted and the two after it remain.
C12_Witness ==
    /\ call.op = "delete_task"
    /\ call.id = 1
    /\ ret.success
    /\ Ids(tasks) = {2, 3}
    /\ tasks[1].id = 2
    /\ tasks[1].is_complete

\* ------------------------------- vocabulary of the persisted variant's claims
\* Caller p's call has returned (or raised).
CallDone(p, op) == sess[p].pc = "idle" /\ sess[p].op = op

\* The call ran without the storage raising an error.
StorageWorked(p) ==
    /\ sess[p].ret.raised = ""
    /\ sess[p].ret.value # << >>
    /\ sess[p].ret.value[2].detail # SqliteError

\* Two emails are equal up to letter case.
SameLetter(c1, c2) ==
    c1 = c2 \/ {c1, c2} \in {{"a", "A"}, {"b", "B"}, {"x", "X"}}
SameUpToCase(e1, e2) ==
    Len(e1) = Len(e2) /\ \A i \in 1..Len(e1) : SameLetter(e1[i], e2[i])
IsLowerCase(e) == \A i \in 1..Len(e) : e[i] \notin {"A", "B", "X"}

DuplicateText == "An account with this email already exists"
InvalidLoginText == "Invalid email or password"
DeniedText == "Todo not found or access denied"

\* C13: create_user(email, password) fails with the duplicate-account message
\* and adds no user record when a user with that email up to letter case
\* exists; otherwise it adds exactly one user record, with the lower-cased
\* email and a hash of the password.
C13_CreateUserRejectsDuplicates ==
    \A p \in Callers :
        CallDone(p, "create_user") =>
            LET a == sess[p].args
                before == sess[p].db0
                dup == \E u \in before.users : SameUpToCase(u.email, a.email)
            IN
            /\ dup => db = before
            /\ (dup /\ StorageWorked(p)) =>
                  sess[p].ret.value = <<FALSE, DbMessage(DuplicateText, "")>>
            /\ (~dup /\ StorageWorked(p)) =>
                  /\ sess[p].ret.value[1] = TRUE
                  /\ before.users \subseteq db.users
                  /\ Cardinality(db.users) = Cardinality(before.users) + 1
                  /\ \A u \in db.users \ before.users :
                        /\ SameUpToCase(u.email, a.email)
                        /\ IsLowerCase(u.email)
                        /\ u.password_hash = hash_password(a.password)
                        /\ \A v \in before.users : v.id # u.id
                  /\ db.todos = before.todos

\* A@X is refused while a@x is registered.
C13_Witness ==
    /\ CallDone(1, "create_user")
    /\ sess[1].args.email = <<"A", "@", "X">>
    /\ \E u \in sess[1].db0.users : u.email = <<"a", "@", "x">>
    /\ sess[1].ret.value = <<FALSE, DbMessage(DuplicateText, "")>>
    /\ Cardinality(db.users) = 2

\* C14: authenticate_user returns the same (False, "Invalid email or
\* password", 0) when the email has no account and when it has one whose
\* password does not match, and it succeeds only when the account exists and
\* the password's hash matches.
C14_LoginFailuresAlike ==
    \A p \in Callers :
        (CallDone(p, "authenticate_user") /\ StorageWorked(p)) =>
            LET a == sess[p].args
                account == {u \in sess[p].db0.users : SameUpToCase(u.email, a.email)}
                matching == {u \in account : u.password_hash = hash_password(a.password)}
            IN
            /\ account = {} =>
                  sess[p].ret.value = <<FALSE, DbMessage(InvalidLoginText, ""), 0>>
            /\ (account # {} /\ matching = {}) =>
                  sess[p].ret.value = <<FALSE, DbMessage(InvalidLoginText, ""), 0>>
            /\ sess[p].ret.value[1] = TRUE <=> matching # {}
            /\ db = sess[p].db0

\* A registered email with the wrong password gets the generic failure.
C14_Witness ==
    /\ CallDone(1, "authenticate_user")
    /\ \E u \in db.users :
          /\ SameUpToCase(u.email, sess[1].args.email)
          /\ u.email # sess[1].args.email
          /\ u.password_hash # hash_password(sess[1].args.password)
    /\ sess[1].ret.value = <<FALSE, DbMessage(InvalidLoginText, ""), 0>>

\* C15: update_todo, toggle_todo and delete_todo called with a user id that is
\* not the todo's owner return the same (False, "Todo not found or access
\* denied") as for a todo id that does not exist and leave the todo
\* unchanged, and no operation of one user changes or removes another
\* user's todo.
C15_OnlyOwnerChangesTodo ==
    \A p \in Callers :
        LET a == sess[p].args
            before == sess[p].db0
            mine == {t \in before.todos : t.id = a.todo_id /\ t.user_id = a.user_id}
        IN
        /\ (sess[p].pc = "idle" /\ sess[p].op # "none") =>
              \A t \in before.todos : t.user_id # a.user_id => t \in db.todos
        /\ \A op \in {"update_todo", "toggle_todo", "delete_todo"} :
              (CallDone(p, op) /\ mine = {}) =>
                  /\ db = before
                  /\ StorageWorked(p) =>
                        sess[p].ret.value = <<FALSE, DbMessage(DeniedText, "")>>

\* A toggle of another user's existing todo is refused.
C15_Witness ==
    /\ CallDone(1, "toggle_todo")
    /\ \E t \in db.todos :
          t.id = sess[1].args.todo_id /\ t.user_id # sess[1].args.user_id
    /\ sess[1].ret.value = <<FALSE, DbMessage(DeniedText, "")>>

\* C16: get_user_todos(u, show_completed) returns exactly the todos whose
\* owner is u, only the uncompleted ones when show_completed is false, never
\* another user's todo, and it does not modify the store.
C16_ListingIsOwnersTodos ==
    \A p \in Callers :
        CallDone(p, "get_user_todos") =>
            LET a == sess[p].args
                listed == sess[p].ret.value
                expected == {t \in sess[p].db0.todos :
                                /\ t.user_id = a.user_id
                                /\ a.show_completed \/ ~t.completed}
            IN
            /\ db = sess[p].db0
            /\ sess[p].ret.raised = "" =>
                  /\ Len(listed) = Cardinality(expected)
                  /\ \A t \in expected : \E i \in 1..Len(listed) :
                        /\ listed[i].id = t.id
                        /\ listed[i].title = t.title
                        /\ listed[i].description = t.description
                        /\ listed[i].completed = t.completed
                  /\ \A i \in 1..Len(listed) : \E t \in expected : t.id = listed[i].id

\* A listing that leaves out another user's todo and the caller's completed one.
C16_Witness ==
    /\ CallDone(1, "get_user_todos")
    /\ ~sess[1].args.show_completed
    /\ sess[1].ret = Value(<< >>)
    /\ \E t \in db.todos : t.user_id # sess[1].args.user_id
    /\ \E t \in db.todos : t.user_id = sess[1].args.user_id /\ t.completed

\* C17: create_todo with a user id for which no user record exists stores no
\* todo, so every stored todo's owner is a stored user.
C17_TodoOwnerExists ==
    \A t \in db.todos : \E u \in db.users : u.id = t.user_id

\* C18: each operation of the persisted variant closes its connection on
\* every exit path, so a connection is open exactly while an operation is
\* in progress.
C18_ConnectionClosedOnExit ==
    \A p \in Callers : sess[p].conn <=> sess[p].pc # "idle"

\* An operation that left through its exception handler, connection closed.
C18_Witness ==
    /\ CallDone(1, "update_todo")
    /\ sess[1].stmts = <<"UPDATE">>
    /\ sess[1].ret.value # << >>
    /\ sess[1].ret.value[2].detail = SqliteError
    /\ ~sess[1].conn

\* C19: every operation of the persisted variant is a single statement: none
\* reads the store and then executes a write that depends on what it read.
C19_NoReadThenWrite ==
    \A p \in Callers :
        LET done == sess[p].stmts IN
        ~\E i, j \in 1..Len(done) :
            /\ i < j
            /\ done[i] = "SELECT"
            /\ done[j] \in {"INSERT", "UPDATE", "DELETE"}

\* C20: every failure of a core operation of either variant, a storage error
\* included, is returned to the caller as a value; none leaves the call as an
\* exception.
C20_NoExceptionEscapes ==
    /\ ret.raised = ""
    /\ \A p \in Callers : sess[p].ret.raised = ""

\* C21: constructing a Task raises exactly when id < 1 or the description is
\* empty or longer than 500 characters; otherwise the task has the given id
\* and description, and is_complete is false unless it was given as true.
C21_TaskConstructor ==
    call.op = "Task" =>
        LET bad == \/ call.id < 1
                   \/ CharCount(call.d) = 0
                   \/ CharCount(call.d) > 500
        IN
        /\ ret.raised # "" <=> bad
        /\ ~bad => ret.task = Some([id |-> call.id,
                                    description |-> call.d,
                                    is_complete |-> (call.is_complete = Some(TRUE))])

\* A task constructed with a whitespace-only description and no flag.
C21_Witness ==
    /\ call.op = "Task"
    /\ call.d # << >> /\ IsBlank(call.d)
    /\ call.is_complete = None
    /\ ret.raised = ""
    /\ ~ret.task[1].is_complete

\* C29: validate_description, the Task constructor, the prompt
\* get_task_description and add_task / update_task (on an existing id) accept
\* exactly the same strings: those whose trimmed form is non-empty and at
\* most 500 characters long.
C29_DescriptionChecksAgree ==
    LET checked ==
            \/ call.op \in {"validate_description", "get_task_description", "add_task"}
            \/ call.op = "Task" /\ call.id >= 1
            \/ call.op = "update_task" /\ ret.message.text # NotFoundText
        accepted == ret.raised = "" /\ ret.success
        trimmed_fits ==
            \E t \in {SubSeq(call.d, i, j) : i \in 1..(Len(call.d) + 1), j \in 0..Len(call.d)} :
                IsTrimOf(t, call.d) /\ t # << >> /\ CharCount(t) <= 500
    IN  checked => (accepted <=> trimmed_fits)

\* C27: after create_user(e, p) has succeeded, authenticate_user(e2, p)
\* succeeds and returns that user's id for every e2 equal to e up to letter
\* case, and authenticate_user(e2, q) fails for every other password q; an id
\* returned on success is never 0 and never the id of another account.
C27_LoginFindsCreatedUser ==
    \A p \in Callers :
        (CallDone(p, "authenticate_user") /\ StorageWorked(p)) =>
            LET a == sess[p].args
                result == sess[p].ret.value
                created == {u \in sess[p].db0.users : SameUpToCase(u.email, a.email)}
            IN
            /\ \A u \in created :
                  IF u.password_hash = hash_password(a.password)
                  THEN result = <<TRUE, DbMessage("Login successful!", ""), u.id>>
                  ELSE result[1] = FALSE
            /\ result[1] = TRUE =>
                  /\ result[3] # 0
                  /\ \E u \in created : u.id = result[3]
                  /\ \A u \in sess[p].db0.users \ created : u.id # result[3]

\* With two accounts stored, A@X logs in to the account created as a@x.
C27_Witness ==
    /\ CallDone(1, "authenticate_user")
    /\ sess[1].args.email = <<"A", "@", "X">>
    /\ Cardinality(db.users) = 2
    /\ sess[1].ret.value # << >>
    /\ sess[1].ret.value[1] = TRUE
    /\ \E u \in db.users : u.email = <<"a", "@", "x">> /\ u.id = sess[1].ret.value[3]

\* C23: setting completion is idempotent in the persisted variant: the same
\* completion request for an owned todo submitted twice leaves the todo in
\* the completed state that submitting it once leaves it in.
C23_DoubleSubmitSameState ==
    \A p \in Callers :
        (CallDone(p, "toggle_todo") /\ StorageWorked(p) /\ sess[p].ret.value[1] = TRUE) =>
            LET once == db
                twice == toggle_todo(db, sess[p].args)
            IN  \A t1 \in once.todos, t2 \in twice.todos :
                    (t1.id = sess[p].args.todo_id /\ t2.id = t1.id) =>
                        t2.completed = t1.completed

\* C22: under any interleaving of concurrent create_user calls the user
\* store never holds two accounts whose emails are equal after case folding,
\* and at most one of the calls for a given email reports success.
C22_OneAccountPerEmail ==
    /\ \A u, v \in db.users : SameUpToCase(u.email, v.email) => u = v
    /\ \A p, q \in DOMAIN sess :
          (/\ p # q
           /\ CallDone(p, "create_user") /\ CallDone(q, "create_user")
           /\ SameUpToCase(sess[p].args.email, sess[q].args.email)
           /\ StorageWorked(p) /\ StorageWorked(q)) =>
              ~(sess[p].ret.value[1] = TRUE /\ sess[q].ret.value[1] = TRUE)

\* Both callers passed the existence check before either inserted; one
\* created the account and the other's INSERT was refused.
C22_Witness ==
    /\ CallDone(1, "create_user") /\ CallDone(2, "create_user")
    /\ sess[1].db0 = sess[2].db0
    /\ sess[1].args.email # sess[2].args.email
    /\ sess[1].ret.value # << >> /\ sess[1].ret.value[1] = TRUE
    /\ sess[2].stmts = <<"SELECT", "INSERT">>
    /\ sess[2].ret.value # << >>
    /\ sess[2].ret.value[2].detail = "UNIQUE constraint failed: users.email"
    /\ Cardinality(db.users) = 2

\* C30: under any interleaving of two concurrent toggle_todo calls by the
\* owner on the same todo, when both calls report success the final
\* completed flag equals the initial one.
C30_NoToggleLost ==
    \A p, q \in DOMAIN sess :
        (/\ p # q
         /\ CallDone(p, "toggle_todo") /\ CallDone(q, "toggle_todo")
         /\ sess[p].args = sess[q].args
         /\ sess[p].db0 = sess[q].db0
         /\ StorageWorked(p) /\ sess[p].ret.value[1] = TRUE
         /\ StorageWorked(q) /\ sess[q].ret.value[1] = TRUE) =>
            \A t0 \in sess[p].db0.todos, t \in db.todos :
                (t0.id = sess[p].args.todo_id /\ t.id = t0.id) =>
                    t.completed = t0.completed

\* ------------------------------------------- vocabulary of the console claims
\* The line read in this step, and whether it was a line at all.
LineRead == console'.line
ReadALine == console'.pc # "interrupted"

\* The number typed, when the line is a decimal integer.
Typed(n) == PyInt(LineRead) = Some(n)
TypedNumber == PyInt(LineRead) # None

\* The answer typed is word up to letter case, whitespace around it aside.
SameAnswerLetter(c1, c2) ==
    c1 = c2 \/ {c1, c2} \in {{"y", "Y"}, {"e", "E"}, {"s", "S"}, {"n", "N"}, {"o", "O"}}
Answered(word) ==
    LET typed == Expand(Strip(LineRead)) IN
    /\ Len(typed) = Len(word)
    /\ \A i \in 1..Len(word) : SameAnswerLetter(typed[i], word[i])
AnsweredYes == Answered(<<"Y">>) \/ Answered(<<"Y", "E", "S">>)
AnsweredNo == Answered(<<"N">>) \/ Answered(<<"N", "O">>)

\* The prompts of the handler that each menu choice stands for.
PromptsOf(choice) ==
    CASE choice = 1 -> {"add_description"}
      [] choice = 2 -> {}
      [] choice = 3 -> {"update_id", "update_description"}
      [] choice = 4 -> {"delete_id", "confirm"}
      [] choice = 5 -> {"complete_id"}
      [] choice = 6 -> {"incomplete_id"}
      [] OTHER -> {}

\* C25: get_menu_choice returns only an integer from 1 to 7 and prompts
\* again with an error on every other line; run_menu_loop takes each choice
\* 1-6 to its one handler, after which the menu is shown again, and it
\* leaves its loop when, and only when, choice 7 is entered.
C25_MenuLoop ==
    [][ /\ console'.choice \in 0..7
        /\ console'.choice # console.choice => console.pc = "menu"
        /\ (console.pc = "menu" /\ ReadALine) =>
              LET typed == PyInt(LineRead) IN
              IF typed # None /\ typed[1] \in 1..7
              THEN /\ console'.choice = typed[1]
                   /\ console'.choice = 7 => console'.pc = "returned"
                   /\ console'.choice = 2 => console'.pc = "pause"
                   /\ console'.choice \in {1, 3, 4, 5, 6} =>
                         console'.pc \in PromptsOf(console'.choice)
              ELSE /\ console'.pc = "menu"
                   /\ console'.out.kind = "error"
                   /\ console'.choice = console.choice
                   /\ tasks' = tasks
        /\ console'.pc = "returned" => (console.pc = "menu" /\ Typed(7))
        /\ \A c \in 1..6 :
              console.pc \in PromptsOf(c) =>
                  /\ console.choice = c
                  /\ console'.pc \in PromptsOf(c) \cup {"pause", "interrupted"}
        /\ console.pc = "pause" =>
              /\ console.choice \in 1..6
              /\ console'.pc \in {"menu", "interrupted"}
              /\ console'.pc = "menu" => console'.out.kind = "menu"
      ]_allvars

\* The loop was left by typing " 7 " after a handler had added a task.
C25_Witness ==
    /\ console.pc = "returned"
    /\ console.line = Chars(<<" ", "7", " ">>)
    /\ console.out.kind = "goodbye"
    /\ tasks # << >>

\* C26: in the console delete flow a task is removed only when its id exists
\* and the answer to the confirmation is Y or YES in any letter case;
\* answering N or NO, or entering an id that does not exist (no confirmation
\* is asked then), leaves the collection unchanged.
C26_DeleteNeedsConfirmation ==
    [][ /\ (console.pc \in {"delete_id", "confirm"} /\ tasks' # tasks) =>
              /\ console.pc = "confirm"
              /\ ReadALine /\ AnsweredYes
              /\ \E i \in 1..Len(tasks) :
                    /\ tasks[i].id = console.task_id
                    /\ tasks' = SubSeq(tasks, 1, i - 1) \o SubSeq(tasks, i + 1, Len(tasks))
        /\ (console.pc = "confirm" /\ ReadALine /\ AnsweredYes) =>
              /\ Len(tasks') = Len(tasks) - 1
              /\ \A i \in 1..Len(tasks') : tasks'[i].id # console.task_id
        /\ (console.pc = "confirm" /\ ReadALine /\ AnsweredNo) =>
              /\ tasks' = tasks
              /\ console'.pc = "pause"
        /\ (/\ console.pc = "delete_id" /\ ReadALine /\ TypedNumber
            /\ \A i \in 1..Len(tasks) : ~Typed(tasks[i].id)) =>
                  /\ tasks' = tasks
                  /\ console'.pc = "pause"
                  /\ console'.out.kind = "error"
        /\ console'.pc = "confirm" => PositionsOf(tasks', console'.task_id) # {}
      ]_allvars

\* " Yes " confirmed the delete of one of two tasks.
C26_Witness ==
    /\ console.pc = "pause"
    /\ console.choice = 4
    /\ console.line = Chars(<<" ", "Y", "e", "s", " ">>)
    /\ call.op = "delete_task" /\ ret.success
    /\ console.out.kind = "success"
    /\ Len(tasks) = 1


\* ----------------------------------------------------------------- C28
\* A successful authenticate_user with what the login form holds gives the
\* session its user id.
LoggedInAs(user_id) ==
    /\ web.rendered = "login"
    /\ \E email \in FormEmails, password \in FormPasswords :
          /\ email # << >> /\ password # ""
          /\ RunCall("authenticate_user", db, foreign_keys,
                     DbArgs(email, password, 0, 0, "", "", TRUE)).value
               = <<TRUE, DbMessage("Login successful!", ""), user_id>>
          /\ web'.user_email = email

\* C28: the todos page is rendered only for a session that holds a user id,
\* and a session gets a user id only from a successful authenticate_user.  A
\* session with no user id that asks for page "todos" is shown the login
\* page; main sends a logged-in session on "login" or "signup" to "todos";
\* a session that leaves the todos page (logout) holds no user id any more,
\* so that it is shown no todos page until a new successful login.
C28_TodosPageNeedsLogin ==
    [][/\ web'.rendered = "todos" => web'.user_id # 0
       /\ (web'.user_id # 0 /\ web'.user_id # web.user_id)
            => LoggedInAs(web'.user_id)
       /\ (web'.user_id = 0 /\ web'.page = "todos") => web'.rendered = "login"
       /\ web'.user_id # 0
            => \A page \in {"login", "signup"} :
                  LET routed == main([web' EXCEPT !.page = page])
                  IN  routed.page = "todos" /\ routed.rendered = "todos"
       /\ (web.rendered = "todos" /\ web'.rendered # "todos")
            => web'.user_id = 0
      ]_allvars

\* The second user, logged in again from a session that asked for ?page=todos
\* and was shown the login page.
C28_Witness ==
    /\ web # << >>
    /\ web.rendered = "todos"
    /\ web.query = "todos"
    /\ web.user_id = 2

\* ----------------------------------------------------------------- C24
\* C24: in the persisted variant no todo is stored whose title is empty,
\* whitespace-only or longer than 500 characters.
C24_CreateTodoValidates ==
    web # << >> =>
        \A t \in db.todos :
            Strip(t.title) # << >> /\ StrLen(t.title) <= MAX_DESCRIPTION
====
